---- MODULE Spec2Model ----
(***************************************************************************)
(* A model of app.py: the collapsed-stack parser (FlameGraphParser), the   *)
(* diff engine (FlameGraphDiffer) and the two request handlers that use    *)
(* the module-level parser and differ objects.                             *)
(*                                                                         *)
(* Python strings are sequences of one-character strings.  Python ints are *)
(* unbounded, and so are the integers here.                                *)
(***************************************************************************)
EXTENDS Integers, Sequences, FiniteSets, TLC

(***************************************************************************)
(* Characters and the character classes of the `re` module.                *)
(***************************************************************************)
Digits == {"0", "1", "2", "3", "4", "5", "6", "7", "8", "9"}

HexLetters == {"a", "b", "c", "d", "e", "f"}

LowerLetters ==
  {"a", "b", "c", "d", "e", "f", "g", "h", "i", "j", "k", "l", "m",
   "n", "o", "p", "q", "r", "s", "t", "u", "v", "w", "x", "y", "z"}

UpperLetters ==
  {"A", "B", "C", "D", "E", "F", "G", "H", "I", "J", "K", "L", "M",
   "N", "O", "P", "Q", "R", "S", "T", "U", "V", "W", "X", "Y", "Z"}

Letters == LowerLetters \cup UpperLetters

\* \s of `re`, and the characters str.strip() removes
Whitespace == {" ", "\t", "\n", "\r"}

\* \w of `re`
WordChars == Letters \cup Digits \cup {"_"}

\* [a-f0-9]
HexChars == HexLetters \cup Digits

Punctuation == {";", "/", "$", "[", "]", ".", "-", "*", "+", "(", ")", ":"}

\* every character a modelled string is made of
Alphabet == WordChars \cup Whitespace \cup Punctuation

Min(a, b) == IF a < b THEN a ELSE b

Abs(x) == IF x < 0 THEN 0 - x ELSE x

(***************************************************************************)
(* str methods.                                                            *)
(***************************************************************************)
Slice(s, i, j) == IF i > j THEN << >> ELSE SubSeq(s, i, j)

RECURSIVE LStripFrom(_, _)
\* index of the first non-whitespace character at or after i, Len(s)+1 if none
LStripFrom(s, i) ==
  IF i > Len(s) THEN i
  ELSE IF s[i] \in Whitespace THEN LStripFrom(s, i + 1) ELSE i

RECURSIVE RStripFrom(_, _)
\* index of the last non-whitespace character at or before j, 0 if none
RStripFrom(s, j) ==
  IF j < 1 THEN 0
  ELSE IF s[j] \in Whitespace THEN RStripFrom(s, j - 1) ELSE j

\* str.strip()
Strip(s) == Slice(s, LStripFrom(s, 1), RStripFrom(s, Len(s)))

\* the indices of s that hold c
IndicesOf(s, c) == {i \in 1..Len(s) : s[i] = c}

\* the k-th smallest element of a set of integers
Nth(S, k) == CHOOSE i \in S : Cardinality({j \in S : j <= i}) = k

\* str.split(sep) for a one-character sep
Split(s, sep) ==
  LET idx == IndicesOf(s, sep)
      n == Cardinality(idx)
      bound(k) == IF k = 0 THEN 0 ELSE IF k = n + 1 THEN Len(s) + 1 ELSE Nth(idx, k)
  IN  [k \in 1..(n + 1) |-> Slice(s, bound(k - 1) + 1, bound(k) - 1)]

RECURSIVE LastIndexOf(_, _, _)
\* the greatest index <= j where s holds c, 0 if none
LastIndexOf(s, c, j) ==
  IF j < 1 THEN 0
  ELSE IF s[j] = c THEN j ELSE LastIndexOf(s, c, j - 1)

\* str.rsplit(sep, 1) for a one-character sep
RSplit1(s, sep) ==
  LET k == LastIndexOf(s, sep, Len(s))
  IN  IF k = 0 THEN << s >>
      ELSE << Slice(s, 1, k - 1), Slice(s, k + 1, Len(s)) >>

RECURSIVE Join(_, _)
\* sep.join(parts)
Join(parts, sep) ==
  IF Len(parts) = 0 THEN << >>
  ELSE IF Len(parts) = 1 THEN parts[1]
  ELSE parts[1] \o sep \o Join(Tail(parts), sep)

\* the `in` operator on strings: sub occurs in s
Contains(s, sub) ==
  \E i \in 1..(Len(s) - Len(sub) + 1) : Slice(s, i, i + Len(sub) - 1) = sub

(***************************************************************************)
(* The part of `re` the normalizer uses.  A pattern is a sequence of       *)
(* alternatives tried in order; an alternative is a sequence of items and  *)
(* a replacement template.  An item is a literal followed by a character   *)
(* class with a greedy quantifier, a lookahead for one character of a      *)
(* class or the end, or the anchor $.  Matching backtracks as `re` does:   *)
(* of the counts a quantified item can take with the rest of the pattern   *)
(* still matching, it takes the greatest.                                  *)
(***************************************************************************)
\* the literal alone
Lit(str) == [kind |-> "cls", lit |-> str, cls |-> {}, min |-> 0, many |-> FALSE]

\* the literal, then one character of cls
One(str, cls) == [kind |-> "cls", lit |-> str, cls |-> cls, min |-> 1, many |-> FALSE]

\* the literal, then cls+
Plus(str, cls) == [kind |-> "cls", lit |-> str, cls |-> cls, min |-> 1, many |-> TRUE]

\* the literal, then cls*
Star(str, cls) == [kind |-> "cls", lit |-> str, cls |-> cls, min |-> 0, many |-> TRUE]

\* the literal, then cls{n,}
AtLeast(str, n, cls) == [kind |-> "cls", lit |-> str, cls |-> cls, min |-> n, many |-> TRUE]

\* (?=c|$) for c in cls
LookOrEnd(cls) == [kind |-> "look", lit |-> << >>, cls |-> cls, min |-> 0, many |-> FALSE]

\* $
EndAnchor == [kind |-> "end", lit |-> << >>, cls |-> {}, min |-> 0, many |-> FALSE]

\* $ without re.MULTILINE: the end, or just before a final newline
AtEnd(s, i) == i > Len(s) \/ (i = Len(s) /\ s[i] = "\n")

SetMax(S) == CHOOSE x \in S : \A y \in S : y <= x

SetMin(S) == CHOOSE x \in S : \A y \in S : x <= y

\* how many characters of cls s holds from index i on
RunLen(s, i, cls) ==
  SetMax({n \in 0..(Len(s) + 1 - i) : \A j \in i..(i + n - 1) : s[j] \in cls})

\* s holds the literal at index i
HasLit(s, i, lit) ==
  i + Len(lit) - 1 <= Len(s) /\ \A j \in 1..Len(lit) : s[i + j - 1] = lit[j]

RECURSIVE MatchItems(_, _, _, _)
\* Items k.. of `items` matched against s from index i: the start index of
\* each of them followed by the index after the match, or << >> if they do
\* not match.
MatchItems(items, k, s, i) ==
  IF k > Len(items) THEN << i >>
  ELSE LET it == items[k]
       IN  IF it.kind = "look" \/ it.kind = "end"
           THEN IF AtEnd(s, i)
                   \/ (it.kind = "look" /\ i <= Len(s) /\ s[i] \in it.cls)
                THEN LET r == MatchItems(items, k + 1, s, i)
                     IN  IF r = << >> THEN << >> ELSE << i >> \o r
                ELSE << >>
           ELSE IF ~HasLit(s, i, it.lit) THEN << >>
           ELSE LET from == i + Len(it.lit)
                    run == RunLen(s, from, it.cls)
                    most == IF it.many THEN run ELSE Min(run, it.min)
                    fits == {n \in it.min..most :
                               MatchItems(items, k + 1, s, from + n) # << >>}
                IN  IF fits = {} THEN << >>
                    ELSE << i >> \o MatchItems(items, k + 1, s, from + SetMax(fits))

RECURSIVE FirstAlt(_, _, _, _)
\* the first alternative of pat, from the a-th on, that matches s at i:
\* [alt, pos], or alt = 0 if none does
FirstAlt(pat, a, s, i) ==
  IF a > Len(pat) THEN [alt |-> 0, pos |-> << >>]
  ELSE LET r == MatchItems(pat[a].items, 1, s, i)
       IN  IF r # << >> THEN [alt |-> a, pos |-> r]
           ELSE FirstAlt(pat, a + 1, s, i)

\* a replacement template part: literal text, or the text matched by items
\* from..to without the first `skip` characters (a group reference)
Text(str) == [kind |-> "text", text |-> str, from |-> 0, to |-> 0, skip |-> 0]

Group(from, to, skip) ==
  [kind |-> "group", text |-> << >>, from |-> from, to |-> to, skip |-> skip]

RECURSIVE Expand(_, _, _, _)
\* the replacement: template parts p.. with the groups taken from s at pos
Expand(repl, p, pos, s) ==
  IF p > Len(repl) THEN << >>
  ELSE (IF repl[p].kind = "text" THEN repl[p].text
        ELSE Slice(s, pos[repl[p].from] + repl[p].skip, pos[repl[p].to + 1] - 1))
       \o Expand(repl, p + 1, pos, s)

RECURSIVE SubFrom(_, _, _)
\* re.sub(pat, repl, s) from index i on: leftmost non-overlapping matches
\* (no pattern here matches the empty string)
SubFrom(pat, s, i) ==
  LET starts == {j \in i..Len(s) : FirstAlt(pat, 1, s, j).alt # 0}
  IN  IF starts = {} THEN Slice(s, i, Len(s))
      ELSE LET j == SetMin(starts)
               m == FirstAlt(pat, 1, s, j)
           IN  Slice(s, i, j - 1) \o Expand(pat[m.alt].repl, 1, m.pos, s)
               \o SubFrom(pat, s, m.pos[Len(m.pos)])

ReSub(pat, s) == SubFrom(pat, s, 1)

(***************************************************************************)
(* FlameGraphParser.normalize_stack_trace                                  *)
(***************************************************************************)
\* r'\s*\[[a-zA-Z]\]\s*$' -> ''
AnnotationPattern ==
  << [items |-> << Star(<< >>, Whitespace), One(<< "[" >>, Letters),
                   Star(<< "]" >>, Whitespace), EndAnchor >>,
      repl |-> << >>] >>

\* r'_+\s*$' -> ''
UnderscorePattern ==
  << [items |-> << Plus(<< >>, {"_"}), Star(<< >>, Whitespace), EndAnchor >>,
      repl |-> << >>] >>

LibSnappy ==
  << "l", "i", "b", "s", "n", "a", "p", "p", "y", "j", "a", "v", "a",
     ".", "s", "o" >>

NotDash == Alphabet \ {"-"}

NotSlash == Alphabet \ {"/"}

\* r'snappy-[^-]+-[^-]+-[^-]+-[^-]+-[^-]+-[^-]+-libsnappyjava\.so'
\*   -> 'snappy-*-libsnappyjava.so'
SnappyPattern ==
  << [items |-> << Plus(<< "s", "n", "a", "p", "p", "y", "-" >>, NotDash),
                   Plus(<< "-" >>, NotDash), Plus(<< "-" >>, NotDash),
                   Plus(<< "-" >>, NotDash), Plus(<< "-" >>, NotDash),
                   Plus(<< "-" >>, NotDash), Lit(<< "-" >> \o LibSnappy) >>,
      repl |-> << Text(<< "s", "n", "a", "p", "p", "y", "-", "*", "-" >>
                       \o LibSnappy) >>] >>

\* (lib\w+), item 1
LibHead == << Plus(<< "l", "i", "b" >>, WordChars) >>

\* -[a-f0-9]+-\d+-[a-f0-9]+-[a-f0-9]+-[a-f0-9]+-([^/]+\.so), 7 items, the
\* group being the last two without the '-'
LibTail ==
  << Plus(<< "-" >>, HexChars), Plus(<< "-" >>, Digits),
     Plus(<< "-" >>, HexChars), Plus(<< "-" >>, HexChars),
     Plus(<< "-" >>, HexChars),
     Plus(<< "-" >>, NotSlash), Lit(<< ".", "s", "o" >>) >>

\* -(\d+\.\d+\.\d+), 3 items
SemVer ==
  << Plus(<< "-" >>, Digits), Plus(<< "." >>, Digits), Plus(<< "." >>, Digits) >>

\* r'(lib\w+)-(\d+\.\d+\.\d+)?-[a-f0-9]+-\d+-[a-f0-9]+-[a-f0-9]+-[a-f0-9]+-([^/]+\.so)'
\*   -> r'\1-*-\3'.  The optional group is tried first, then skipped; \w+ is
\* followed by '-', which is no word character, so its extent is the same
\* either way and the two alternatives are tried in the order `re` does.
NativeLibPattern ==
  << [items |-> LibHead \o SemVer \o LibTail,
      repl |-> << Group(1, 1, 0), Text(<< "-", "*", "-" >>), Group(10, 11, 1) >>],
     [items |-> LibHead \o << Lit(<< "-" >>) >> \o LibTail,
      repl |-> << Group(1, 1, 0), Text(<< "-", "*", "-" >>), Group(8, 9, 1) >>] >>

\* r'\$\$[a-f0-9]{3,}(?=\$|\.|$)' -> '$$*'
DoubleDollarPattern ==
  << [items |-> << AtLeast(<< "$", "$" >>, 3, HexChars), LookOrEnd({"$", "."}) >>,
      repl |-> << Text(<< "$", "$", "*" >>) >>] >>

\* r'\$[a-f0-9]{3,}(?=\$|\.|$)' -> '$*'
DollarPattern ==
  << [items |-> << AtLeast(<< "$" >>, 3, HexChars), LookOrEnd({"$", "."}) >>,
      repl |-> << Text(<< "$", "*" >>) >>] >>

\* r'\d+' -> '*'
NumberPattern ==
  << [items |-> << Plus(<< >>, Digits) >>, repl |-> << Text(<< "*" >>) >>] >>

\* lines 31-32
CleanFrame(frame) == Strip(ReSub(UnderscorePattern, ReSub(AnnotationPattern, frame)))

\* lines 39-40
SnappyStep(f) == IF Contains(f, LibSnappy) THEN ReSub(SnappyPattern, f) ELSE f

\* the body of the loop over frames, lines 29-62
NormalizeFrame(frame) ==
  ReSub(NumberPattern,
    ReSub(DollarPattern,
      ReSub(DoubleDollarPattern,
        ReSub(NativeLibPattern, SnappyStep(CleanFrame(frame))))))

normalize_stack_trace(stack_trace) ==
  LET frames == Split(stack_trace, ";")
  IN  Join([j \in 1..Len(frames) |-> NormalizeFrame(frames[j])], << ";" >>)

(***************************************************************************)
(* int(): an optional sign, then decimal digits, single underscores        *)
(* allowed between digits.  The argument has been stripped.                *)
(***************************************************************************)
DigitSeq == << "0", "1", "2", "3", "4", "5", "6", "7", "8", "9" >>

DigitValue(c) == (CHOOSE k \in 1..Len(DigitSeq) : DigitSeq[k] = c) - 1

\* the text after the sign
Unsigned(s) == IF Len(s) > 0 /\ s[1] \in {"+", "-"} THEN Tail(s) ELSE s

\* int(s) does not raise ValueError
IsIntLiteral(s) ==
  LET u == Unsigned(s)
  IN  /\ Len(u) > 0
      /\ \A i \in 1..Len(u) : u[i] \in Digits \cup {"_"}
      /\ u[1] # "_" /\ u[Len(u)] # "_"
      /\ \A i \in 1..(Len(u) - 1) : ~(u[i] = "_" /\ u[i + 1] = "_")

RECURSIVE DigitsValue(_, _)
\* the value of the first n characters of a string of digits and underscores
DigitsValue(u, n) ==
  IF n = 0 THEN 0
  ELSE IF u[n] = "_" THEN DigitsValue(u, n - 1)
  ELSE 10 * DigitsValue(u, n - 1) + DigitValue(u[n])

\* int(s), for s that int() accepts
IntValue(s) ==
  LET v == DigitsValue(Unsigned(s), Len(Unsigned(s)))
  IN  IF s[1] = "-" THEN 0 - v ELSE v

(***************************************************************************)
(* dict and defaultdict(int): a function from the keys present to their    *)
(* values.                                                                 *)
(***************************************************************************)
EmptyTable == [k \in {} |-> 0]

\* d.get(key, 0): reads, and inserts nothing
Get(table, key) == IF key \in DOMAIN table THEN table[key] ELSE 0

\* a dict update that assigns the count where lines 86-87 add it
AddCountAssign(table, key, count) ==
  [k \in DOMAIN table \cup {key} |-> IF k = key THEN count ELSE table[k]]

\* d[key] += count on a defaultdict(int): a missing key is inserted
AddCount(table, key, count) ==
  [k \in DOMAIN table \cup {key} |->
     IF k = key THEN Get(table, key) + count ELSE table[k]]

RECURSIVE SumOver(_, _)
\* the sum of the values of the keys in S
SumOver(table, S) ==
  IF S = {} THEN 0
  ELSE LET k == CHOOSE x \in S : TRUE
       IN  table[k] + SumOver(table, S \ {k})

\* sum(table.values())
SumValues(table) == SumOver(table, DOMAIN table)

(***************************************************************************)
(* FlameGraphParser.parse_file                                             *)
(***************************************************************************)
\* line 72: the line is blank
IsBlank(line) == Strip(line) = << >>

\* line 76
Parts(line) == RSplit1(line, " ")

\* lines 72-78 and 82: the line is not blank, splits in two at its last
\* space, and int() accepts the stripped second part
ValidParts(line, parts) ==
  /\ ~IsBlank(line)
  /\ Len(parts) = 2
  /\ IsIntLiteral(Strip(parts[2]))

IsValidLine(line) == ValidParts(line, Parts(line))

\* lines 81 and 85
LineStack(line) == normalize_stack_trace(Strip(Parts(line)[1]))

\* line 82
LineCount(line) == IntValue(Strip(Parts(line)[2]))

\* lines 86-87
Accumulate(acc, normalized_stack, count) ==
  [stack_counts |-> AddCount(acc.stack_counts, normalized_stack, count),
   total_samples |-> acc.total_samples + count]

\* One iteration of the loop of lines 71-91 on the locals
\* [stack_counts, total_samples].  int() raises before either is written,
\* so a line that is skipped leaves both as they were.
ParseLine(line, acc) ==
  IF ~IsValidLine(line) THEN acc
  ELSE Accumulate(acc, LineStack(line), LineCount(line))

RECURSIVE ParseLines(_, _, _)
\* the loop of lines 71-91 over the first n lines
ParseLines(lines, n, acc) ==
  IF n = 0 THEN acc
  ELSE ParseLine(lines[n], ParseLines(lines, n - 1, acc))

ParseAll(lines, acc) == ParseLines(lines, Len(lines), acc)

\* line 71
FileLines(file_content) == Split(Strip(file_content), "\n")

\* parse_file with its locals starting as `acc`
ParseInto(file_content, acc) ==
  ParseAll(FileLines(file_content), acc)

\* lines 68-69: the locals a call starts with
FreshLocals == [stack_counts |-> EmptyTable, total_samples |-> 0]

(***************************************************************************)
(* FlameGraphDiffer.calculate_diff                                         *)
(*                                                                         *)
(* A percentage is a float in the code.  Here it is the exact fraction     *)
(* [num, den], den > 0, and round(x, 2) is that fraction rounded to a      *)
(* whole number of hundredths, ties to even, as round() does on a value    *)
(* that the float holds exactly.                                           *)
(***************************************************************************)
Zero == [num |-> 0, den |-> 1]

\* a guard that lets a total of zero through to the division
DividesNonNegative(total) == total >= 0

\* the guard `if total > 0` of lines 119, 127 and 128: the division is done
Divides(total) == total > 0

\* x / total * 100 if total > 0 else 0
PercentOf(x, total) ==
  IF Divides(total) THEN [num |-> x * 100, den |-> total] ELSE Zero

\* calculate_diff raises ZeroDivisionError: line 119 divides by a zero
\* old_total, or the loop of line 123 runs and line 127 or 128 divides by a
\* zero total
ZeroDivision(old_total, new_total, all_stacks) ==
  \/ Divides(old_total) /\ old_total = 0
  \/ all_stacks # {} /\ Divides(new_total) /\ new_total = 0

\* line 131
Minus(p, q) == [num |-> p.num * q.den - q.num * p.den, den |-> p.den * q.den]

\* round(p, 2), in hundredths
Round2(p) ==
  LET n == p.num * 100
      q == n \div p.den
      r == n - q * p.den
  IN  IF 2 * r < p.den THEN q
      ELSE IF 2 * r > p.den THEN q + 1
      ELSE IF q % 2 = 0 THEN q ELSE q + 1

\* a record whose old_percent is computed from the new table
StackInfoCopied(stack, old_stacks, new_stacks, old_total, new_total) ==
  [stack |-> stack,
   old_count |-> Get(old_stacks, stack),
   new_count |-> Get(new_stacks, stack),
   old_percent |-> Round2(PercentOf(Get(new_stacks, stack), new_total)),
   new_percent |-> Round2(PercentOf(Get(new_stacks, stack), new_total)),
   diff_count |-> Get(new_stacks, stack) - Get(old_stacks, stack),
   diff_percent |-> Round2(Minus(PercentOf(Get(new_stacks, stack), new_total),
                                 PercentOf(Get(old_stacks, stack), old_total)))]

\* lines 124-141
StackInfo(stack, old_stacks, new_stacks, old_total, new_total) ==
  LET old_count == Get(old_stacks, stack)
      new_count == Get(new_stacks, stack)
      old_percent == PercentOf(old_count, old_total)
      new_percent == PercentOf(new_count, new_total)
  IN  [stack |-> stack,
       old_count |-> old_count,
       new_count |-> new_count,
       old_percent |-> Round2(old_percent),
       new_percent |-> Round2(new_percent),
       diff_count |-> new_count - old_count,
       diff_percent |-> Round2(Minus(new_percent, old_percent))]

\* a chain whose first test leaves out new_count > 0
CategoryAddedUnguarded(old_count, new_count, diff_count) ==
  IF old_count = 0 THEN "added"
  ELSE IF old_count > 0 /\ new_count = 0 THEN "removed"
  ELSE IF diff_count > 0 THEN "increased"
  ELSE IF diff_count < 0 THEN "decreased"
  ELSE "unchanged"

\* lines 143-152: the list a record is appended to
Category(old_count, new_count, diff_count) ==
  IF old_count = 0 /\ new_count > 0 THEN "added"
  ELSE IF old_count > 0 /\ new_count = 0 THEN "removed"
  ELSE IF diff_count > 0 THEN "increased"
  ELSE IF diff_count < 0 THEN "decreased"
  ELSE "unchanged"

CategoryOf(info) == Category(info.old_count, info.new_count, info.diff_count)

\* a sort key that keeps the sign
SortKeySigned(info) == info.diff_percent

\* line 156: the sort key
SortKey(info) == Abs(info.diff_percent)

\* list.sort(key=SortKey, reverse=True): stable, so records of equal key keep
\* their order
SortDescending(list) ==
  LET n == Len(list)
      rank(i) == Cardinality({j \in 1..n : SortKey(list[j]) > SortKey(list[i])})
                 + Cardinality({j \in 1..i : SortKey(list[j]) = SortKey(list[i])})
  IN  [p \in 1..n |-> list[CHOOSE i \in 1..n : rank(i) = p]]

Sorted == {"added", "removed", "increased", "decreased"}

\* lines 109-121
Summary(old_total, new_total) ==
  [old_total |-> old_total,
   new_total |-> new_total,
   total_change |-> new_total - old_total,
   total_change_percent |-> PercentOf(new_total - old_total, old_total)]

\* calculate_diff, the loop of line 123 visiting the set all_stacks in the
\* order `order`
calculate_diff(old_stacks, new_stacks, old_total, new_total, order) ==
  LET infos == [i \in 1..Len(order) |->
                  StackInfo(order[i], old_stacks, new_stacks, old_total, new_total)]
      appended(c) == LET In(info) == CategoryOf(info) = c
                     IN  SelectSeq(infos, In)
      list(c) == IF c \in Sorted THEN SortDescending(appended(c)) ELSE appended(c)
  IN  [added |-> list("added"),
       removed |-> list("removed"),
       increased |-> list("increased"),
       decreased |-> list("decreased"),
       unchanged |-> list("unchanged"),
       summary |-> Summary(old_total, new_total)]

\* the keys of the old table alone
AllStacksOldOnly(old_stacks, new_stacks) == DOMAIN old_stacks

\* line 107
AllStacks(old_stacks, new_stacks) == DOMAIN old_stacks \cup DOMAIN new_stacks

(***************************************************************************)
(* debug_stacks, lines 225-270: the correlation report                     *)
(***************************************************************************)
\* line 247: list(common_methods)[:5]
ExampleLimit == 5

\* line 262: list(common_methods)[:10]
CommonLimit == 10

\* a leaf extraction that leaves out the split on '/'
LastMethodNoPath(stack) == Split(stack, ";")[Len(Split(stack, ";"))]

\* lines 231-233 and 237-239
LastMethod(stack) ==
  LET stack_parts == Split(stack, ";")
      last == stack_parts[Len(stack_parts)]
  IN  IF Contains(last, << "/" >>)
      THEN Split(last, "/")[Len(Split(last, "/"))]
      ELSE last

\* lines 229-234 and 236-240
Methods(list) == {LastMethod(list[i].stack) : i \in 1..Len(list)}

\* line 243
CommonMethods(diff_results) ==
  Methods(diff_results.added) \cap Methods(diff_results.removed)

\* seq[:n]
Prefix(seq, n) == Slice(seq, 1, Min(n, Len(seq)))

\* lines 248 and 249
ExamplesOf(method, list) ==
  LET Has(item) == Contains(item.stack, method)
  IN  SelectSeq(list, Has)

RECURSIVE Examples(_, _, _)
\* the loop of lines 247-256 over the first n of `methods`
Examples(methods, n, diff_results) ==
  IF n = 0 THEN << >>
  ELSE LET method == methods[n]
           added_examples == ExamplesOf(method, diff_results.added)
           removed_examples == ExamplesOf(method, diff_results.removed)
       IN  Examples(methods, n - 1, diff_results)
           \o (IF added_examples # << >> /\ removed_examples # << >>
               THEN << [method |-> method,
                        added_example |-> added_examples[1].stack,
                        removed_example |-> removed_examples[1].stack] >>
               ELSE << >>)

\* lines 260-270, list(common_methods) giving `common_list`
Report(diff_results, common_list) ==
  [common_methods_count |-> Len(common_list),
   common_methods |-> Prefix(common_list, CommonLimit),
   examples |-> Examples(Prefix(common_list, ExampleLimit),
                         Len(Prefix(common_list, ExampleLimit)), diff_results),
   summary |-> [total_added |-> Len(diff_results.added),
                total_removed |-> Len(diff_results.removed),
                total_increased |-> Len(diff_results.increased),
                total_decreased |-> Len(diff_results.decreased)]]

(***************************************************************************)
(* Iteration over a Python set.  The order is the hash table's, which the  *)
(* code does not control: a small set is visited in any order, a larger    *)
(* one in any rotation of one fixed order.                                 *)
(***************************************************************************)
MaxPermuted == 3

RECURSIVE SetToSeq(_)
SetToSeq(S) ==
  IF S = {} THEN << >>
  ELSE LET x == CHOOSE y \in S : TRUE
       IN  << x >> \o SetToSeq(S \ {x})

IterationOrders(S) ==
  LET n == Cardinality(S)
      c == SetToSeq(S)
  IN  IF n <= MaxPermuted
      THEN {f \in [1..n -> S] : \A i, j \in 1..n : f[i] = f[j] => i = j}
      ELSE {[i \in 1..n |-> c[((i + k - 1) % n) + 1]] : k \in 0..(n - 1)}

(***************************************************************************)
(* The inputs.  A request uploads two files; a file is lines joined by     *)
(* newlines.                                                               *)
(***************************************************************************)
\* the lines of the two files of a diff request, together
MaxLines == 3

\* the leaf methods of the files of a debug request
MaxLeaves == 11

\* the characters of a frame given to the normalizer
MaxFrameLen == 3

\* concurrent requests
NumThreads == 2

Lines ==
  { << "a", ";", "b", " ", "1" >>,
    << "a", ";", "b", " ", "[", "j", "]", " ", "2" >>,
    << "c", "/", "b", " ", "3" >>,
    << "d", "7", " ", "0" >>,
    << "a", ";", "b", " ", "-", "1" >>,
    << "o", "n", "l", "y", "s", "t", "a", "c", "k" >>,
    << "c", "/", "b", " ", "x", "1" >> }

\* the text of a file of these lines
FileOf(lines) ==
  IF Len(lines) = 0 THEN << >> ELSE Join(lines, << "\n" >>) \o << "\n" >>

DiffInputs ==
  UNION { { << FileOf(o), FileOf(n) >> : o \in [1..ij[1] -> Lines],
                                           n \in [1..ij[2] -> Lines] }
          : ij \in {x \in (0..MaxLines) \X (0..MaxLines) : x[1] + x[2] <= MaxLines} }

LeafLetters ==
  << "a", "b", "c", "d", "e", "f", "g", "h", "i", "j", "k", "l", "m", "n",
     "o", "p", "q", "r", "s", "t", "u", "v", "w" >>

\* the i-th leaf method: the second holds the first as a substring
Leaf(i) == IF i = 2 THEN << "a", "b" >> ELSE << LeafLetters[i] >>

\* the line "<prefix><leaf i> <1 or 2>"
LeafLine(prefix, i) ==
  prefix \o Leaf(i) \o << " " >> \o (IF i % 2 = 1 THEN << "1" >> ELSE << "2" >>)

\* the file of the first k leaf methods under a prefix
LeafFile(prefix, k) == FileOf([i \in 1..k |-> LeafLine(prefix, i)])

DebugInputs ==
  { << LeafFile(<< "x", ";" >>, k), LeafFile(<< "y", "/" >>, m) >>
      : k \in 0..MaxLeaves, m \in {0, MaxLeaves} }
  \cup { << LeafFile(<< "x", ";" >>, k), LeafFile(<< "y", "/" >>, k) >>
      : k \in 0..MaxLeaves }

ConcInputs ==
  { << FileOf(<< << "a", ";", "b", " ", "1" >> >>),
       FileOf(<< << "c", "/", "b", " ", "3" >>,
                 << "a", ";", "b", " ", "[", "j", "]", " ", "2" >> >>) >>,
    << FileOf(<< << "d", "7", " ", "0" >> >>), << >> >>,
    << FileOf(<< << "c", "/", "b", " ", "3" >> >>),
       FileOf(<< << "a", ";", "b", " ", "1" >> >>) >> }

FrameChars == {"a", "1", "$", "_", " ", "[", "j", "]", "."}

LongFrames ==
  { << "s", "n", "a", "p", "p", "y", "-", "1", ".", "1", ".", "4", "-",
       "a", "b", "c", "1", "2", "3", "-", "1", "-", "d", "e", "4", "5", "-",
       "f", "-", "6", "7", "8", "9", "-" >> \o LibSnappy,
    << "c", "o", "m", ".", "f", "o", "o", ".", "B", "a", "r", "$", "$",
       "4", "e", "5", "e", "6", ".", "r", "u", "n" >>,
    << "l", "i", "b", "z", "-", "1", ".", "2", ".", "3", "-", "a", "b", "-",
       "7", "-", "c", "-", "d", "-", "e", "-", "z", ".", "s", "o" >> }

Frames == (UNION { [1..n -> FrameChars] : n \in 0..MaxFrameLen }) \cup LongFrames

(***************************************************************************)
(* The program state.                                                      *)
(*                                                                         *)
(* heap    the dict objects, by reference; `live` are the references in    *)
(*         use.  Reference ParserTable is the defaultdict that             *)
(*         FlameGraphParser.__init__ stores in self.stack_counts.          *)
(* parser  the fields of the module-level parser object (line 161).        *)
(* locals  per request thread, the handler's position and local variables; *)
(*         old_stacks and new_stacks are references into the heap.         *)
(* nframe, nout   a frame, and the results of normalizing it once and      *)
(*         twice.                                                          *)
(***************************************************************************)
VARIABLES heap, live, parser, locals, nframe, nout

vars == << heap, live, parser, locals, nframe, nout >>

Threads == 1..NumThreads

\* line 20: the dict self.stack_counts refers to
ParserTable == 1

Refs == 1..(2 * NumThreads + 1)

NoResults ==
  [added |-> << >>, removed |-> << >>, increased |-> << >>, decreased |-> << >>,
   unchanged |-> << >>, summary |-> Summary(0, 0)]

NoReport ==
  [common_methods_count |-> 0, common_methods |-> << >>, examples |-> << >>,
   summary |-> [total_added |-> 0, total_removed |-> 0, total_increased |-> 0,
                total_decreased |-> 0]]

\* a thread that serves no request
Idle ==
  [pc |-> "idle", route |-> "none", old_content |-> << >>, new_content |-> << >>,
   old_stacks |-> 0, old_total |-> 0, new_stacks |-> 0, new_total |-> 0,
   all_stacks |-> << >>, diff_results |-> NoResults,
   common_list |-> << >>, data |-> NoReport]

\* lines 19-21 and 161-162
InitObjects ==
  /\ heap = [r \in Refs |-> EmptyTable]
  /\ live = {ParserTable}
  /\ parser = [stack_counts |-> ParserTable, total_samples |-> 0]
  /\ locals = [t \in Threads |-> Idle]

Init == InitObjects /\ nframe = << >> /\ nout = << >>

\* line 94: what a call of parse_file on `self` that filled the dict `table`
\* with the locals `result` returns and leaves behind
Returned(self, h, lv, table, result) ==
  [stack_counts |-> table,
   total_samples |-> result.total_samples,
   heap |-> [h EXCEPT ![table] = result.stack_counts],
   live |-> lv \cup {table},
   self |-> self]

\* what a call that wrote its total to self.total_samples leaves behind
ReturnedOnSelf(self, h, lv, result) ==
  Returned([self EXCEPT !.total_samples = result.total_samples],
           h, lv, self.stack_counts, result)

\* a parse_file that accumulates into self.stack_counts and
\* self.total_samples, the fields of lines 20-21, and returns them
parse_file_on_self(self, h, lv, fresh, file_content) ==
  ReturnedOnSelf(self, h, lv,
                 ParseInto(file_content,
                           [stack_counts |-> h[self.stack_counts],
                            total_samples |-> self.total_samples]))

\* lines 66-94.  The call parse_file(file_content) on the parser `self`, with
\* heap h and live references lv: the table it returns (a reference), the
\* total, and the heap, live references and parser after it.  Line 68 makes a
\* new dict, to which the allocator gives the reference `fresh`, and the loop
\* fills it; self is not written.
parse_file(self, h, lv, fresh, file_content) ==
  Returned(self, h, lv, fresh, ParseInto(file_content, FreshLocals))

\* the references of the dicts that the two parse_file calls of thread t make:
\* each call makes an object no other call makes
OldRef(t) == 2 * t

NewRef(t) == 2 * t + 1

\* lines 176-184 and 213-218: a request for `route` arrives with two files
Request(t, route, inputs) ==
  /\ locals[t].pc = "idle"
  /\ \E files \in inputs :
       locals' = [locals EXCEPT ![t] =
                    [Idle EXCEPT !.pc = "start", !.route = route,
                                 !.old_content = files[1],
                                 !.new_content = files[2]]]
  /\ UNCHANGED << heap, live, parser, nframe, nout >>

\* lines 187 and 219
ParseOld(t) ==
  /\ locals[t].pc = "start"
  /\ \E r \in {parse_file(parser, heap, live, OldRef(t), locals[t].old_content)} :
         /\ heap' = r.heap
         /\ live' = r.live
         /\ parser' = r.self
         /\ locals' = [locals EXCEPT ![t].pc = "parsed_old",
                                     ![t].old_stacks = r.stack_counts,
                                     ![t].old_total = r.total_samples]
  /\ UNCHANGED << nframe, nout >>

\* lines 188 and 220
ParseNew(t) ==
  /\ locals[t].pc = "parsed_old"
  /\ \E r \in {parse_file(parser, heap, live, NewRef(t), locals[t].new_content)} :
         /\ heap' = r.heap
         /\ live' = r.live
         /\ parser' = r.self
         /\ locals' = [locals EXCEPT ![t].pc = "parsed_new",
                                     ![t].new_stacks = r.stack_counts,
                                     ![t].new_total = r.total_samples]
  /\ UNCHANGED << nframe, nout >>

\* lines 191 and 223; an exception of the call is caught at lines 198 and
\* 273, and the handler answers 500
CalculateDiff(t) ==
  /\ locals[t].pc = "parsed_new"
  /\ LET old_stacks == heap[locals[t].old_stacks]
         new_stacks == heap[locals[t].new_stacks]
     IN  IF ZeroDivision(locals[t].old_total, locals[t].new_total,
                         AllStacks(old_stacks, new_stacks))
         THEN locals' = [locals EXCEPT ![t].pc = "failed"]
         ELSE \E order \in IterationOrders(AllStacks(old_stacks, new_stacks)) :
                locals' = [locals EXCEPT
                             ![t].pc = "diffed",
                             ![t].all_stacks = order,
                             ![t].diff_results =
                                calculate_diff(old_stacks, new_stacks,
                                               locals[t].old_total,
                                               locals[t].new_total, order)]
  /\ UNCHANGED << heap, live, parser, nframe, nout >>

\* lines 225-256
Correlate(t) ==
  /\ locals[t].pc = "diffed"
  /\ locals[t].route = "debug"
  /\ \E common_list \in IterationOrders(CommonMethods(locals[t].diff_results)) :
       locals' = [locals EXCEPT
                    ![t].pc = "reported",
                    ![t].common_list = common_list,
                    ![t].data = Report(locals[t].diff_results, common_list)]
  /\ UNCHANGED << heap, live, parser, nframe, nout >>

\* the handler is at a return statement (lines 193, 199, 258, 274)
Returning(l) ==
  l.pc = "failed" \/ l.pc = "reported" \/ (l.pc = "diffed" /\ l.route = "diff")

\* lines 193-199 and 258-274: the response is sent and the handler returns;
\* its tables are garbage, unless the parser still refers to them
Respond(t) ==
  /\ Returning(locals[t])
  /\ LET freed == {locals[t].old_stacks, locals[t].new_stacks} \ {parser.stack_counts}
     IN  /\ live' = live \ freed
         /\ heap' = [r \in Refs |-> IF r \in freed THEN EmptyTable ELSE heap[r]]
  /\ locals' = [locals EXCEPT ![t] = Idle]
  /\ UNCHANGED << parser, nframe, nout >>

Handle(t) ==
  \/ ParseOld(t)
  \/ ParseNew(t)
  \/ CalculateDiff(t)
  \/ Correlate(t)
  \/ Respond(t)

\* one request at a time
Next ==
  \/ Request(1, "diff", DiffInputs)
  \/ Request(1, "debug", DebugInputs)
  \/ Handle(1)

Spec == Init /\ [][Next]_vars

\* /api/diff requests served by concurrent threads, which interleave between
\* the handler's calls
NextConc ==
  \E t \in Threads :
    \/ Request(t, "diff", ConcInputs)
    \/ ParseOld(t)
    \/ ParseNew(t)
    \/ CalculateDiff(t)
    \/ Respond(t)

SpecConc == Init /\ [][NextConc]_vars

\* the normalizer applied to a frame, and to its own result
InitNorm == InitObjects /\ nframe \in Frames /\ nout = << >>

Normalize ==
  /\ Len(nout) = 0
  /\ nout' = << normalize_stack_trace(nframe) >>
  /\ UNCHANGED << heap, live, parser, locals, nframe >>

NormalizeAgain ==
  /\ Len(nout) = 1
  /\ nout' = Append(nout, normalize_stack_trace(nout[1]))
  /\ UNCHANGED << heap, live, parser, locals, nframe >>

NextNorm == Normalize \/ NormalizeAgain

SpecNorm == InitNorm /\ [][NextNorm]_vars

(***************************************************************************)
(* The properties.                                                         *)
(***************************************************************************)
Categories == {"added", "removed", "increased", "decreased", "unchanged"}

\* the threads whose call of calculate_diff has returned
Diffed == {t \in Threads : locals[t].pc \in {"diffed", "reported"}}

\* the threads whose first, and whose second, call of parse_file has just
\* returned
ParsedOld == {t \in Threads : locals[t].pc = "parsed_old"}

ParsedNew == {t \in Threads : locals[t].pc = "parsed_new"}

\* the two tables thread t gave to calculate_diff
OldTable(t) == heap[locals[t].old_stacks]

NewTable(t) == heap[locals[t].new_stacks]

\* the stack signatures of a list of records
StacksOf(list) == {list[i].stack : i \in 1..Len(list)}

\* a record of list c of the result
Records(results, c) == {results[c][i] : i \in 1..Len(results[c])}

\* C1: the signatures of added, removed, increased, decreased and unchanged
\* together are the union of the two tables' keys, and each signature is in
\* one list, once.
Partition ==
  \A t \in Diffed :
    LET r == locals[t].diff_results
        keys == DOMAIN OldTable(t) \cup DOMAIN NewTable(t)
    IN  /\ UNION {StacksOf(r[c]) : c \in Categories} = keys
        /\ \A c, d \in Categories : c # d => StacksOf(r[c]) \cap StacksOf(r[d]) = {}
        /\ \A c \in Categories : Cardinality(StacksOf(r[c])) = Len(r[c])

\* a result with a record added, one removed and one unchanged
PartitionWitness ==
  \E t \in Diffed :
    /\ Len(locals[t].diff_results.added) = 1
    /\ Len(locals[t].diff_results.removed) = 1
    /\ Len(locals[t].diff_results.unchanged) = 1

\* the list the claim puts a signature with these counts in
Expected(old_count, new_count) ==
  CHOOSE c \in Categories :
    /\ c = "added" <=> (old_count = 0 /\ new_count > 0)
    /\ c = "removed" <=> (old_count > 0 /\ new_count = 0)
    /\ c \notin {"added", "removed"} =>
         /\ c = "increased" <=> new_count - old_count > 0
         /\ c = "decreased" <=> new_count - old_count < 0
         /\ c = "unchanged" <=> new_count - old_count = 0

\* C2: every signature of the union, its counts taken as 0 where it is
\* absent, has its record in added iff old_count = 0 and new_count > 0, in
\* removed iff old_count > 0 and new_count = 0, and otherwise in increased,
\* decreased or unchanged by the sign of new_count - old_count, which is the
\* record's diff_count.
Classification ==
  \A t \in Diffed :
    \A stack \in DOMAIN OldTable(t) \cup DOMAIN NewTable(t) :
      LET old_count == Get(OldTable(t), stack)
          new_count == Get(NewTable(t), stack)
      IN  \E info \in Records(locals[t].diff_results, Expected(old_count, new_count)) :
            /\ info.stack = stack
            /\ info.old_count = old_count
            /\ info.new_count = new_count
            /\ info.diff_count = new_count - old_count

\* a result with a record increased and one added, as in `a;b` and `a;d` of
\* the example
ClassificationWitness ==
  \E t \in Diffed :
    /\ \E info \in Records(locals[t].diff_results, "increased") :
         info.old_count = 1 /\ info.new_count = 2 /\ info.diff_count = 1
    /\ \E info \in Records(locals[t].diff_results, "added") : info.new_count = 3

RECURSIVE SumCounts(_, _)
\* the sum of the counts of the lines with index in S
SumCounts(lines, S) ==
  IF S = {} THEN 0
  ELSE LET i == CHOOSE x \in S : TRUE
       IN  LineCount(lines[i]) + SumCounts(lines, S \ {i})

\* the table and total agree with each other and with the valid lines of the
\* text they were parsed from
Conserves(table, total, file_content) ==
  LET lines == FileLines(file_content)
      valid == {i \in 1..Len(lines) : IsValidLine(lines[i])}
      keyed == {<< LineStack(lines[i]), i >> : i \in valid}
  IN  /\ SumValues(table) = total
      /\ total = SumCounts(lines, valid)
      /\ DOMAIN table = {e[1] : e \in keyed}
      /\ \A key \in DOMAIN table :
           table[key] = SumCounts(lines, {e[2] : e \in {x \in keyed : x[1] = key}})

\* C3: the values of the table parse_file returns sum to the total it
\* returns, and the counts of the valid lines that normalize to one signature
\* are added into that signature's entry.
Conservation ==
  /\ \A t \in ParsedOld :
       Conserves(OldTable(t), locals[t].old_total, locals[t].old_content)
  /\ \A t \in ParsedNew :
       Conserves(NewTable(t), locals[t].new_total, locals[t].new_content)

\* the lines `a;b 1` and `a;b [j] 2` of one file are merged into a;b -> 3
ConservationWitness ==
  \E t \in ParsedOld :
    /\ Len(FileLines(locals[t].old_content)) = 2
    /\ OldTable(t) = (<< "a", ";", "b" >> :> 3)
    /\ locals[t].old_total = 3

\* C4: normalizing the result of the normalizer returns it unchanged.
Idempotent == Len(nout) = 2 => nout[2] = nout[1]

\* every signature of the table is in added, with old_percent 0
AllAdded(table, results) ==
  \A stack \in DOMAIN table :
    \E info \in Records(results, "added") : info.stack = stack /\ info.old_percent = 0

\* C5 as stated: with an empty old table and old_total = 0, every signature
\* of the new table is in added with old_percent = 0, and the other four
\* lists are empty.
ZeroBaseline ==
  \A t \in Diffed :
    OldTable(t) = EmptyTable /\ locals[t].old_total = 0 =>
      /\ AllAdded(NewTable(t), locals[t].diff_results)
      /\ \A c \in Categories \ {"added"} : locals[t].diff_results[c] = << >>

\* the table without the keys whose count is not positive
Positive(table) == [k \in {x \in DOMAIN table : table[x] > 0} |-> table[k]]

\* C5 as the code has it: with an empty old table and old_total = 0, every
\* signature of the new table whose count is positive is in added with
\* old_percent = 0, and removed and increased are empty; a signature whose
\* count is 0 is in unchanged and one whose count is negative in decreased.
ZeroBaselinePositive ==
  \A t \in Diffed :
    OldTable(t) = EmptyTable /\ locals[t].old_total = 0 =>
      LET r == locals[t].diff_results
      IN  /\ AllAdded(Positive(NewTable(t)), r)
          /\ StacksOf(r.added) = DOMAIN Positive(NewTable(t))
          /\ r.removed = << >> /\ r.increased = << >>
          /\ StacksOf(r.unchanged) = {k \in DOMAIN NewTable(t) : NewTable(t)[k] = 0}
          /\ StacksOf(r.decreased) = {k \in DOMAIN NewTable(t) : NewTable(t)[k] < 0}

\* an empty old file against a new file with a positive and a zero count
ZeroBaselineWitness ==
  \E t \in Diffed :
    /\ OldTable(t) = EmptyTable /\ locals[t].old_total = 0
    /\ Len(locals[t].diff_results.added) = 1
    /\ Len(locals[t].diff_results.unchanged) = 1

\* the stacks of a list of records, in the order of the list
StackSeq(list) == [i \in 1..Len(list) |-> list[i].stack]

\* seq without the elements outside S
Restrict(seq, S) == LET In(x) == x \in S IN SelectSeq(seq, In)

\* C6: in added, removed, increased and decreased, a record is followed by
\* one of no greater abs(diff_percent); unchanged keeps the order in which
\* the loop appended its records.
SortOrder ==
  \A t \in Diffed :
    LET r == locals[t].diff_results
    IN  /\ \A c \in Sorted : \A i \in 1..(Len(r[c]) - 1) :
             Abs(r[c][i].diff_percent) >= Abs(r[c][i + 1].diff_percent)
        /\ StackSeq(r.unchanged) = Restrict(locals[t].all_stacks, StacksOf(r.unchanged))

\* the sort moved a record of added in front of one the loop visited before
\* it
SortOrderWitness ==
  \E t \in Diffed :
    LET r == locals[t].diff_results
    IN  /\ Len(r.added) = 2
        /\ Abs(r.added[1].diff_percent) > Abs(r.added[2].diff_percent)
        /\ StackSeq(r.added) # Restrict(locals[t].all_stacks, StacksOf(r.added))

\* the claim's well-formed line: it splits in two at its last space, and the
\* second part is an integer that is not negative
WellFormed(line) == IsValidLine(line) /\ LineCount(line) >= 0

\* C7: a line that does not split into a stack and a count, or whose count
\* is no non-negative integer, is skipped, and the other lines are processed
\* as if it were absent: the table and total are those of the well-formed
\* lines alone.
SkipsMalformed ==
  /\ \A t \in ParsedOld :
       [stack_counts |-> OldTable(t), total_samples |-> locals[t].old_total]
         = ParseAll(SelectSeq(FileLines(locals[t].old_content), WellFormed), FreshLocals)
  /\ \A t \in ParsedNew :
       [stack_counts |-> NewTable(t), total_samples |-> locals[t].new_total]
         = ParseAll(SelectSeq(FileLines(locals[t].new_content), WellFormed), FreshLocals)

\* the threads that have a table from parse_file
HasOld == {t \in Threads : locals[t].pc \notin {"idle", "start"}}

HasNew == {t \in Threads : locals[t].pc \notin {"idle", "start", "parsed_old"}}

\* C8: whatever calls came before or in between, a table and total that
\* parse_file returned are those a fresh parser returns for that text, they
\* stay so while the request holds them, and the parser's fields stack_counts
\* and total_samples are as __init__ left them.
NoSharedState ==
  /\ parser = [stack_counts |-> ParserTable, total_samples |-> 0]
  /\ heap[ParserTable] = EmptyTable
  /\ \A t \in HasOld :
       [stack_counts |-> OldTable(t), total_samples |-> locals[t].old_total]
         = ParseInto(locals[t].old_content, FreshLocals)
  /\ \A t \in HasNew :
       [stack_counts |-> NewTable(t), total_samples |-> locals[t].new_total]
         = ParseInto(locals[t].new_content, FreshLocals)

\* two requests overlap: one holds both its tables while the other is between
\* its two parse_file calls, and the three tables differ
NoSharedStateWitness ==
  \E t, u \in Threads :
    /\ t # u
    /\ t \in HasNew /\ locals[u].pc = "parsed_old"
    /\ OldTable(t) # EmptyTable /\ NewTable(t) # OldTable(t)
    /\ OldTable(u) # EmptyTable /\ OldTable(u) # OldTable(t) /\ OldTable(u) # NewTable(t)

\* count / total * 100 rounded to hundredths, 0 for a total of 0
Hundredths(count, total) ==
  IF total = 0 THEN 0 ELSE Round2([num |-> count * 100, den |-> total])

\* C9: calculate_diff does not fail on a zero total; old_percent is computed
\* against old_total and new_percent against new_total, 0 when that total is
\* 0; total_change is new_total - old_total and total_change_percent is 0
\* when old_total is 0.  (A negative total, which only a negative count in the
\* input gives, is left aside.)
ZeroTotal ==
  \A t \in Threads :
    /\ locals[t].pc # "failed"
    /\ t \in Diffed =>
         LET r == locals[t].diff_results
             old_total == locals[t].old_total
             new_total == locals[t].new_total
         IN  /\ \A c \in Categories : \A info \in Records(r, c) :
                  /\ old_total >= 0 =>
                       info.old_percent = Hundredths(info.old_count, old_total)
                  /\ new_total >= 0 =>
                       info.new_percent = Hundredths(info.new_count, new_total)
             /\ r.summary.total_change = new_total - old_total
             /\ old_total = 0 => r.summary.total_change_percent.num = 0

\* a result for an old total of 0 and a new total of 4, with a record at 75%
ZeroTotalWitness ==
  \E t \in Diffed :
    /\ locals[t].old_total = 0 /\ locals[t].new_total = 4
    /\ \E info \in Records(locals[t].diff_results, "added") :
         info.new_percent = 7500 /\ info.old_percent = 0

\* the text after the last ';' or '/' of a stack
LeafOf(stack) ==
  LET cuts == {i \in 1..Len(stack) : stack[i] \in {";", "/"}}
  IN  IF cuts = {} THEN stack ELSE Slice(stack, SetMax(cuts) + 1, Len(stack))

\* the stack of the first record of the list that holds method
FirstWith(method, list) ==
  list[SetMin({i \in 1..Len(list) : Contains(list[i].stack, method)})].stack

\* C10: every reported common method is the leaf of an added and of a
\* removed record; at most 10 common methods and 5 examples are reported; an
\* example pairs a method of the intersection with the first added and the
\* first removed record whose signature holds it, and there are
\* min(5, number of common methods) examples.
Correlation ==
  \A t \in Threads :
    locals[t].pc = "reported" =>
      LET r == locals[t].diff_results
          d == locals[t].data
          common == {LeafOf(x) : x \in StacksOf(r.added)}
                      \cap {LeafOf(x) : x \in StacksOf(r.removed)}
      IN  /\ \A i \in 1..Len(d.common_methods) : d.common_methods[i] \in common
          /\ Len(d.common_methods) <= 10
          /\ Len(d.examples) <= 5
          /\ \A i \in 1..Len(d.examples) :
               /\ d.examples[i].method \in common
               /\ d.examples[i].added_example = FirstWith(d.examples[i].method, r.added)
               /\ d.examples[i].removed_example = FirstWith(d.examples[i].method, r.removed)
          /\ Len(d.examples) = Min(5, Cardinality(common))

\* a report over more than 10 common methods, one of whose examples is not
\* the record the method is the leaf of
CorrelationWitness ==
  \E t \in Threads :
    /\ locals[t].pc = "reported"
    /\ locals[t].data.common_methods_count > 10
    /\ Len(locals[t].data.common_methods) = 10
    /\ Len(locals[t].data.examples) = 5
    /\ \E i \in 1..5 :
         LeafOf(locals[t].data.examples[i].added_example) # locals[t].data.examples[i].method

====
